---- MODULE Spec2Model ----
(***************************************************************************)
(* Model of map_example.py: the tab-separated column reader                *)
(* (strings_from_data_columns, ints_from_data_columns) and the datalogging *)
(* script under "if __name__ == '__main__'".                               *)
(*                                                                         *)
(* Text is modelled as a sequence of one-character strings, so that        *)
(* splitting, joining, int() and str() are computed and not assumed.       *)
(***************************************************************************)
EXTENDS Integers, Sequences, FiniteSets, TLC

VARIABLES
    mapfile,      \* text of the map file, or NoFile when it does not exist
    called,       \* "none" | "strings" | "ints": the reader called last
    ret,          \* what that call returned or raised
    pc,           \* position of the script
    error,        \* exception that ended the script, "none" otherwise
    pix,          \* column 0 of the map file as ints
    wav,          \* column 1 of the map file as ints
    start_pixel,
    stop_pixel,
    chr_map,      \* dict pixel -> wavelength
    disk,         \* datalog.txt on disk, or NoFile
    df,           \* text held by the open file object, not yet on disk
    i,            \* loop variable of the datalog loop
    reply,        \* reply of the last kit.captureFrame()
    captured      \* history: every reply captured inside the datalog loop

vars == <<mapfile, called, ret, pc, error, pix, wav, start_pixel, stop_pixel,
          chr_map, disk, df, i, reply, captured>>

readerVars == <<called, ret>>
scriptVars == <<pc, error, pix, wav, start_pixel, stop_pixel, chr_map,
                disk, df, i, reply, captured>>

-----------------------------------------------------------------------------
(* Bounds *)

MaxLines == 3      \* lines of a file given to the reader alone
MaxMapLines == 2   \* lines of the map file of the script
MaxFields == 2     \* tab-separated fields of a generated line
MaxPixels == 3     \* pixels of a frame, and largest pixel number in a map file

-----------------------------------------------------------------------------
(* Text *)

\* a file: its text, or no file of that name
File(text) == [exists |-> TRUE, text |-> text]
NoFile == [exists |-> FALSE, text |-> <<>>]
TAB == "\t"
NL == "\n"
HASH == "#"
COMMA == ","

Min(a, b) == IF a <= b THEN a ELSE b

RECURSIVE Concat(_)
\* "".join(parts) for a sequence of texts
Concat(parts) ==
    IF parts = <<>> THEN <<>> ELSE Head(parts) \o Concat(Tail(parts))

RECURSIVE Join(_, _)
\* sep.join(parts)
Join(parts, sep) ==
    IF parts = <<>> THEN <<>>
    ELSE IF Len(parts) = 1 THEN parts[1]
    ELSE parts[1] \o <<sep>> \o Join(Tail(parts), sep)

RECURSIVE Split(_, _)
\* s.split(sep): always at least one field; an empty s gives ['']
Split(s, sep) ==
    IF \E k \in 1..Len(s) : s[k] = sep
    THEN LET k == CHOOSE k \in 1..Len(s) :
                    s[k] = sep /\ \A j \in 1..(k - 1) : s[j] # sep
         IN  <<SubSeq(s, 1, k - 1)>> \o Split(SubSeq(s, k + 1, Len(s)), sep)
    ELSE <<s>>

RECURSIVE FileLines(_)
\* iterating an open text file: each line keeps its "\n"; the last line may
\* have none
FileLines(text) ==
    IF text = <<>> THEN <<>>
    ELSE IF \E k \in 1..Len(text) : text[k] = NL
    THEN LET k == CHOOSE k \in 1..Len(text) :
                    text[k] = NL /\ \A j \in 1..(k - 1) : text[j] # NL
         IN  <<SubSeq(text, 1, k)>> \o FileLines(SubSeq(text, k + 1, Len(text)))
    ELSE <<text>>

RECURSIVE Strip(_, _)
\* line.strip(c): c removed from both ends
Strip(s, c) ==
    IF s = <<>> THEN s
    ELSE IF s[1] = c THEN Strip(Tail(s), c)
    ELSE IF s[Len(s)] = c THEN Strip(SubSeq(s, 1, Len(s) - 1), c)
    ELSE s

startswith(s, c) == Len(s) > 0 /\ s[1] = c

Digits == <<"0", "1", "2", "3", "4", "5", "6", "7", "8", "9">>

IsDigit(c) == \E d \in 1..10 : Digits[d] = c

DigitValue(c) == (CHOOSE d \in 1..10 : Digits[d] = c) - 1

RECURSIVE NatText(_)
NatText(n) ==
    IF n < 10 THEN <<Digits[n + 1]>>
    ELSE NatText(n \div 10) \o <<Digits[(n % 10) + 1]>>

\* str(n) for an int
str(n) == IF n < 0 THEN <<"-">> \o NatText(0 - n) ELSE NatText(n)

RECURSIVE NatValue(_)
NatValue(s) ==
    IF s = <<>> THEN 0
    ELSE 10 * NatValue(SubSeq(s, 1, Len(s) - 1)) + DigitValue(s[Len(s)])

AllDigits(s) == s # <<>> /\ \A k \in 1..Len(s) : IsDigit(s[k])

\* int(s) accepts an optional sign and then at least one digit
IsIntText(s) ==
    IF startswith(s, "-") \/ startswith(s, "+") THEN AllDigits(Tail(s))
    ELSE AllDigits(s)

\* int(s) where IsIntText(s)
int(s) ==
    IF startswith(s, "-") THEN 0 - NatValue(Tail(s))
    ELSE IF startswith(s, "+") THEN NatValue(Tail(s))
    ELSE NatValue(s)

-----------------------------------------------------------------------------
(* The column reader *)

Raise(kind) == [ok |-> FALSE, err |-> kind]
Return(value) == [ok |-> TRUE, val |-> value]

\* the filter without its test for blank lines
IsDataLine_keepsBlank(line) == ~startswith(line, HASH)

\* the generator's filter: header (comment) lines and blank lines are ignored
IsDataLine(line) == ~startswith(line, HASH) /\ ~startswith(line, NL)

RECURSIVE StripBlanks(_)
StripBlanks(s) ==
    IF s = <<>> THEN s
    ELSE IF s[1] \in {NL, TAB} THEN StripBlanks(Tail(s))
    ELSE IF s[Len(s)] \in {NL, TAB} THEN StripBlanks(SubSeq(s, 1, Len(s) - 1))
    ELSE s

\* line.strip() in place of line.strip('\n'): tabs at the ends go too
RowOf_stripsTabs(line) == Split(StripBlanks(line), TAB)

\* line.strip('\n').split('\t')
RowOf(line) == Split(Strip(line, NL), TAB)

RECURSIVE DataRows(_)
\* the generator "data": one list of fields for each line that is kept
DataRows(lines) ==
    IF lines = <<>> THEN <<>>
    ELSE IF IsDataLine(Head(lines))
    THEN <<RowOf(Head(lines))>> \o DataRows(Tail(lines))
    ELSE DataRows(Tail(lines))

RECURSIVE MinLen(_)
MinLen(rows) ==
    IF Len(rows) = 1 THEN Len(rows[1])
    ELSE Min(Len(rows[1]), MinLen(Tail(rows)))

\* tuple(zip(*rows)): zip stops at the shortest row; no row gives ()
Unzip(rows) ==
    IF rows = <<>> THEN <<>>
    ELSE [c \in 1..MinLen(rows) |-> [r \in 1..Len(rows) |-> rows[r][c]]]

strings_from_data_columns(tsv_datafile) ==
    IF ~tsv_datafile.exists THEN Raise("FileNotFoundError")
    ELSE Return(Unzip(DataRows(FileLines(tsv_datafile.text))))

ints_from_data_columns(tsv_datafile) ==
    LET data == strings_from_data_columns(tsv_datafile)
    IN  IF ~data.ok THEN data
        ELSE IF \E c \in 1..Len(data.val) :
                   \E r \in 1..Len(data.val[c]) : ~IsIntText(data.val[c][r])
        THEN Raise("ValueError")
        ELSE Return([c \in 1..Len(data.val) |->
                        [r \in 1..Len(data.val[c]) |-> int(data.val[c][r])]])

-----------------------------------------------------------------------------
(* The script *)

num_frames == 3

Last(s) == s[Len(s)]

SeqRange(s) == {s[k] : k \in 1..Len(s)}

RECURSIVE InsertionOrder(_)
\* the keys of a dict built from these keys: each once, where it came first
InsertionOrder(keys) ==
    IF keys = <<>> THEN <<>>
    ELSE LET front == SubSeq(keys, 1, Len(keys) - 1)
         IN  IF Last(keys) \in SeqRange(front) THEN InsertionOrder(front)
             ELSE Append(InsertionOrder(front), Last(keys))

\* dict(zip(keys, values)): zip stops at the shorter sequence, a key that
\* repeats keeps its last value; "order" is the order of iteration
DictZip(keys, values) ==
    LET n == Min(Len(keys), Len(values))
    IN  [order |-> InsertionOrder(SubSeq(keys, 1, n)),
         at |-> [key \in {keys[k] : k \in 1..n} |->
                    values[CHOOSE k \in 1..n :
                              keys[k] = key /\ \A j \in (k + 1)..n : keys[j] # key]]]

\* an unpacking that takes the first two columns of two or more
UnpacksToTwo_orMore(columns) == Len(columns) >= 2

\* "pix, wav = ..." unpacks exactly two columns
UnpacksToTwo(columns) == Len(columns) = 2

RECURSIVE Least(_)
Least(column) ==
    IF Len(column) = 1 THEN column[1] ELSE Min(column[1], Least(Tail(column)))

RECURSIVE Greatest(_)
Greatest(column) ==
    IF Len(column) = 1 THEN column[1]
    ELSE LET rest == Greatest(Tail(column))
         IN  IF column[1] >= rest THEN column[1] ELSE rest

\* min(pix) and max(pix) in place of the first and the last entry
FirstAndLast_minMax(column) == <<Least(column), Greatest(column)>>

\* start_pixel = pix[0]; stop_pixel = pix[-1]
FirstAndLast(column) == <<column[1], Last(column)>>

\* ",".join([str(v) for v in values]) + "\n"
CsvLine(values) ==
    Join([k \in 1..Len(values) |-> str(values[k])], COMMA) \o <<NL>>

\* a heading of the distinct wavelengths only
HeadingData_distinct(wavelengths) == CsvLine(InsertionOrder(wavelengths))

\* the heading of wavelengths
HeadingData(wavelengths) == CsvLine(wavelengths)

\* pixel numbers from 0: range(reply.num_pixels)
FrameDict_fromZero(r) == DictZip([k \in 1..r.num_pixels |-> k - 1], r.pixels)

\* frame = dict(zip(range(1, reply.num_pixels + 1), reply.pixels))
FrameDict(r) == DictZip([k \in 1..r.num_pixels |-> k], r.pixels)

\* start_pixel < pixel <= stop_pixel
InRange_afterStart(pixel, start, stop) == start < pixel /\ pixel <= stop

\* start_pixel <= pixel < stop_pixel
InRange_beforeStop(pixel, start, stop) == start <= pixel /\ pixel < stop

InRange(pixel, start, stop) == start <= pixel /\ pixel <= stop

\* [frame[pixel] for pixel in frame if start_pixel <= pixel <= stop_pixel]
FrameCounts(frame, start, stop) ==
    LET kept == SelectSeq(frame.order, LAMBDA pixel : InRange(pixel, start, stop))
    IN  [k \in 1..Len(kept) |-> frame.at[kept[k]]]

FrameData(r, start, stop) == CsvLine(FrameCounts(FrameDict(r), start, stop))

\* a file object: open or closed, and the text it holds that is not on disk
Opened(held) == [open |-> TRUE, held |-> held]
Closed == [open |-> FALSE, held |-> <<>>]

NoReply == [num_pixels |-> 0, pixels |-> <<>>]

\* open(..., "w") followed by one write and the close of the with block
WriteNew(old, data) == data

\* a write that replaces what the file object holds
WriteAppend_replaces(held, data) == data

\* df.write(data) on the file object opened with "a"
WriteAppend(held, data) == held \o data

\* the with block closes the file on every way out: what the file object
\* holds goes to disk after what is there
CloseFile(ondisk, held) == ondisk \o held

-----------------------------------------------------------------------------
(* Inputs *)

SeqsUpTo(S, n) == UNION {[1..k -> S] : k \in 0..n}

\* a text file of these lines, each ended by "\n"
FileOf(lines) == Concat([k \in 1..Len(lines) |-> lines[k] \o <<NL>>])

\* the same file without the "\n" of its last line
Unterminated(text) == SubSeq(text, 1, Len(text) - 1)

FieldTexts == {<<>>, <<"1">>}

\* every row of one to MaxFields fields (the row of one empty field is the
\* blank line), two comment lines and a row with "#" in its second field
ReaderLines ==
    {Join(fields, TAB) : fields \in SeqsUpTo(FieldTexts, MaxFields) \ {<<>>}}
    \cup {<<HASH>>, <<HASH, TAB, "1">>, <<"1", TAB, HASH>>}

\* a map file for the reader: no file, or up to MaxLines lines, the last
\* of them with or without its "\n"
IsReaderFile(f) ==
    \/ f = NoFile
    \/ \E n \in 0..MaxLines : \E lines \in [1..n -> ReaderLines] :
          \/ f = File(FileOf(lines))
          \/ n > 0 /\ f = File(Unterminated(FileOf(lines)))

\* the wavelength a map file gives for a pixel
WavelengthAt(p) == 280 + p

\* lines of a map file: a pixel and its wavelength, pixel 1 once more with
\* another wavelength, a comment, a blank line, and rows of one field, of
\* three fields and with a field that is no int
ScriptLines ==
    {Join(<<str(p), str(WavelengthAt(p))>>, TAB) : p \in 0..MaxPixels}
    \cup {Join(<<str(1), str(1017)>>, TAB)}
    \cup {<<HASH, "p">>, <<>>}
    \cup {str(1), Join(<<str(1), <<"n", "m">>>>, TAB),
          Join(<<str(1), str(280), str(2)>>, TAB)}

\* a map file for the script: no file, or up to MaxMapLines lines
IsScriptFile(f) ==
    \/ f = NoFile
    \/ \E n \in 0..MaxMapLines : \E lines \in [1..n -> ScriptLines] :
          f = File(FileOf(lines))

\* what is in datalog.txt before the script runs
OldLog == <<"4", COMMA, "2", NL, "7", NL>>

\* replies of kit.captureFrame(): num_pixels counts, each pixel with a count
\* of its own so that a count out of place shows
CountAt(k) == 40 + k

Frames == {[num_pixels |-> n, pixels |-> [k \in 1..n |-> CountAt(k)]] : n \in 0..MaxPixels}

-----------------------------------------------------------------------------
(* The reader used as a module *)

ScriptIdle ==
    /\ pc = "import" /\ error = "none"
    /\ pix = <<>> /\ wav = <<>> /\ start_pixel = 0 /\ stop_pixel = 0
    /\ chr_map = DictZip(<<>>, <<>>)
    /\ disk = NoFile /\ df = Closed
    /\ i = 0 /\ reply = NoReply /\ captured = <<>>

InitReader ==
    /\ IsReaderFile(mapfile)
    /\ called = "none" /\ ret = Raise("not called")
    /\ ScriptIdle

CallStrings ==
    /\ pc = "import"
    /\ called' = "strings"
    /\ ret' = strings_from_data_columns(mapfile)
    /\ UNCHANGED <<mapfile, scriptVars>>

CallInts ==
    /\ pc = "import"
    /\ called' = "ints"
    /\ ret' = ints_from_data_columns(mapfile)
    /\ UNCHANGED <<mapfile, scriptVars>>

NextReader == CallStrings \/ CallInts

SpecReader == InitReader /\ [][NextReader]_vars

-----------------------------------------------------------------------------
(* The script run as a program *)

Init ==
    /\ IsScriptFile(mapfile)
    /\ called = "none" /\ ret = Raise("not called")
    /\ pc = "read_map" /\ error = "none"
    /\ pix = <<>> /\ wav = <<>> /\ start_pixel = 0 /\ stop_pixel = 0
    /\ chr_map = DictZip(<<>>, <<>>)
    /\ disk \in {NoFile, File(OldLog)} /\ df = Closed
    /\ i = 0 /\ reply = NoReply /\ captured = <<>>

Running(at) == pc = at /\ error = "none"

\* an exception leaves the script where it was raised
Fails(kind) == error' = kind /\ pc' = pc

\* pix, wav = ints_from_data_columns(...); start and stop pixel; chr_map
ReadMap ==
    /\ Running("read_map")
    /\ called' = "ints"
    /\ ret' = ints_from_data_columns(mapfile)
    /\ IF ~ret'.ok
       THEN /\ Fails(ret'.err)
            /\ UNCHANGED <<pix, wav, start_pixel, stop_pixel, chr_map>>
       ELSE IF ~UnpacksToTwo(ret'.val)
       THEN /\ Fails("ValueError")
            /\ UNCHANGED <<pix, wav, start_pixel, stop_pixel, chr_map>>
       ELSE /\ pix' = ret'.val[1]
            /\ wav' = ret'.val[2]
            /\ start_pixel' = FirstAndLast(pix')[1]
            /\ stop_pixel' = FirstAndLast(pix')[2]
            /\ chr_map' = DictZip(pix', wav')
            /\ error' = "none"
            /\ pc' = "heading"
    /\ UNCHANGED <<mapfile, disk, df, i, reply, captured>>

\* the heading of wavelengths, written to a datalog.txt opened with "w"
WriteHeading ==
    /\ Running("heading")
    /\ \/ /\ disk' = File(WriteNew(disk.text, HeadingData(wav)))
          /\ pc' = "kit" /\ error' = "none"
       \/ /\ Fails("OSError")
          /\ disk' = disk
    /\ UNCHANGED <<mapfile, called, ret, pix, wav, start_pixel, stop_pixel,
                   chr_map, df, i, reply, captured>>

\* kit = MicroSpecSimpleInterface()
OpenKit ==
    /\ Running("kit")
    /\ \/ pc' = "open" /\ error' = "none"
       \/ Fails("ProviderError")
    /\ UNCHANGED <<mapfile, called, ret, pix, wav, start_pixel, stop_pixel,
                   chr_map, disk, df, i, reply, captured>>

\* with open('datalog.txt', "a") as df
OpenLog ==
    /\ Running("open")
    /\ \/ /\ df' = Opened(<<>>)
          /\ pc' = "capture" /\ error' = "none"
       \/ /\ Fails("OSError")
          /\ df' = df
    /\ UNCHANGED <<mapfile, called, ret, pix, wav, start_pixel, stop_pixel,
                   chr_map, disk, i, reply, captured>>

\* reply = kit.captureFrame(); an exception leaves the with block, which
\* closes the file
Capture ==
    /\ Running("capture")
    /\ i < num_frames
    /\ \/ /\ \E r \in Frames :
                /\ reply' = r
                /\ captured' = Append(captured, r)
          /\ pc' = "log" /\ error' = "none"
          /\ UNCHANGED <<disk, df>>
       \/ /\ Fails("ProviderError")
          /\ disk' = File(CloseFile(disk.text, df.held))
          /\ df' = Closed
          /\ UNCHANGED <<reply, captured>>
    /\ UNCHANGED <<mapfile, called, ret, pix, wav, start_pixel, stop_pixel,
                   chr_map, i>>

\* frame = dict(zip(...)); data = ",".join(...)+"\n"; df.write(data)
LogFrame ==
    /\ Running("log")
    /\ \/ /\ df' = Opened(WriteAppend(df.held, FrameData(reply, start_pixel, stop_pixel)))
          /\ i' = i + 1
          /\ pc' = "capture" /\ error' = "none"
          /\ disk' = disk
       \/ /\ Fails("OSError")
          /\ disk' = File(CloseFile(disk.text, df.held))
          /\ df' = Closed
          /\ i' = i
    /\ UNCHANGED <<mapfile, called, ret, pix, wav, start_pixel, stop_pixel,
                   chr_map, reply, captured>>

\* the file object may hand what it holds to the disk at any time
Flush ==
    /\ error = "none"
    /\ df.open /\ df.held # <<>>
    /\ disk' = File(CloseFile(disk.text, df.held))
    /\ df' = Opened(<<>>)
    /\ UNCHANGED <<mapfile, called, ret, pc, error, pix, wav, start_pixel,
                   stop_pixel, chr_map, i, reply, captured>>

\* the loop is over: the with block closes the file and the datalog is
\* complete (what the script prints after it is left out)
CloseLog ==
    /\ Running("capture")
    /\ i = num_frames
    /\ disk' = File(CloseFile(disk.text, df.held))
    /\ df' = Closed
    /\ pc' = "done"
    /\ UNCHANGED <<mapfile, called, ret, error, pix, wav, start_pixel,
                   stop_pixel, chr_map, i, reply, captured>>

Next ==
    \/ ReadMap
    \/ WriteHeading
    \/ OpenKit
    \/ OpenLog
    \/ Capture
    \/ LogFrame
    \/ Flush
    \/ CloseLog

Spec == Init /\ [][Next]_vars

-----------------------------------------------------------------------------
(* What the claims speak of, read off the text itself *)

RECURSIVE PiecesUpTo(_, _, _)
\* the stretches between separators of the first n characters of s
PiecesUpTo(s, sep, n) ==
    IF n = 0 THEN <<<<>>>>
    ELSE LET before == PiecesUpTo(s, sep, n - 1)
         IN  IF s[n] = sep THEN Append(before, <<>>)
             ELSE [before EXCEPT ![Len(before)] = Append(@, s[n])]

\* the stretches of s between separators
Pieces(s, sep) == PiecesUpTo(s, sep, Len(s))

PieceCount(s, sep) == Len(Pieces(s, sep))

Piece(s, sep, n) == Pieces(s, sep)[n]

\* the lines of a text without their "\n"
TextLines(text) ==
    LET all == Pieces(text, NL)
    IN  IF Last(all) = <<>> THEN SubSeq(all, 1, Len(all) - 1) ELSE all

IsComment(line) == line # <<>> /\ line[1] = HASH
IsBlank(line) == line = <<>>

\* the surviving data rows of a map file, in file order
SurvivingRows(text) ==
    SelectSeq(TextLines(text), LAMBDA line : ~IsComment(line) /\ ~IsBlank(line))

FieldCount(row) == PieceCount(row, TAB)

Ragged(rows) ==
    \E a, b \in 1..Len(rows) : FieldCount(rows[a]) # FieldCount(rows[b])

-----------------------------------------------------------------------------
(* Claims about the reader, under SpecReader *)

\* C1: whenever two surviving data rows of the file differ in field count,
\* strings_from_data_columns fails with an error and returns no columns.
C1_RaggedRowsRaise ==
    (called = "strings" /\ mapfile.exists /\ Ragged(SurvivingRows(mapfile.text)))
        => ~ret.ok

\* C2: for a file whose R >= 1 data rows all have C fields, with any comment
\* and blank lines between them, strings_from_data_columns returns C columns
\* of length R, column c entry r being field c of the r-th data row, and
\* joining the columns back by row gives the data rows of the file.
C2_ColumnsAreTheRows ==
    LET rows == SurvivingRows(mapfile.text)
    IN  (called = "strings" /\ mapfile.exists /\ rows # <<>> /\ ~Ragged(rows))
        => /\ ret.ok
           /\ Len(ret.val) = FieldCount(rows[1])
           /\ \A c \in 1..Len(ret.val) :
                 /\ Len(ret.val[c]) = Len(rows)
                 /\ \A r \in 1..Len(rows) : ret.val[c][r] = Piece(rows[r], TAB, c)
           /\ [r \in 1..Len(rows) |->
                  Join([c \in 1..Len(ret.val) |-> ret.val[c][r]], TAB)] = rows

C2_Witness ==
    LET rows == SurvivingRows(mapfile.text)
    IN  /\ called = "strings" /\ mapfile.exists /\ ret.ok
        /\ Len(rows) = 2 /\ ~Ragged(rows) /\ FieldCount(rows[1]) = 2
        /\ rows[1] # rows[2]
        /\ Len(TextLines(mapfile.text)) = 3
        /\ \E n \in 1..3 : IsComment(TextLines(mapfile.text)[n])
        /\ Len(ret.val) = 2 /\ ret.val[1] # ret.val[2]

\* C3: for a file of comment lines and blank lines only (the empty file
\* too), strings_from_data_columns and ints_from_data_columns both return
\* the empty tuple and raise nothing.
C3_NoRowsNoColumns ==
    (called # "none" /\ mapfile.exists /\ SurvivingRows(mapfile.text) = <<>>)
        => (ret.ok /\ ret.val = <<>>)

C3_Witness ==
    /\ called = "ints" /\ mapfile.exists /\ ret.ok /\ ret.val = <<>>
    /\ Len(TextLines(mapfile.text)) = 3
    /\ \E n \in 1..3 : IsComment(TextLines(mapfile.text)[n])
    /\ \E n \in 1..3 : IsBlank(TextLines(mapfile.text)[n])

-----------------------------------------------------------------------------
(* Claims about the script, under Spec *)

\* the heading has been written: the logging session has started
HeadingWritten == pc \in {"kit", "open", "capture", "log", "done"}

\* datalog.txt as written so far: what is on disk and what df still holds
LogText == disk.text \o df.held

LogLines == TextLines(LogText)

\* comma-separated fields of a line of the log; the empty line has none
CountFields(line) == IF line = <<>> THEN 0 ELSE PieceCount(line, COMMA)

Numbers(line) ==
    IF line = <<>> THEN <<>>
    ELSE LET fields == Pieces(line, COMMA)
         IN  [n \in 1..Len(fields) |-> int(fields[n])]

Max(a, b) == IF a >= b THEN a ELSE b

\* counts[p-1] for the pixels p of the frame with start <= p <= stop, p rising
CountsInRange(r, start, stop) ==
    LET lo == Max(1, start)
        hi == Min(r.num_pixels, stop)
    IN  [n \in 1..(hi - lo + 1) |-> r.pixels[lo + n - 1]]

\* the map file read off its text: the fields of each data row
MapRows ==
    LET rows == SurvivingRows(mapfile.text)
    IN  [n \in 1..Len(rows) |-> Pieces(rows[n], TAB)]

FullWidth == stop_pixel - start_pixel + 1

\* the pixel column is the run start, start + 1, ..., stop, from 1 or above
ConsecutivePixels ==
    /\ start_pixel >= 1
    /\ Len(pix) = FullWidth
    /\ \A n \in 1..Len(pix) : pix[n] = start_pixel + n - 1

\* C4 as stated: every line of a frame with num_pixels >= stop has as many
\* fields as the heading, and that many is stop - start + 1, whatever the
\* map file.
C4_RowsAsWideAsHeading ==
    HeadingWritten =>
        \A lines \in {LogLines} :
            \A k \in 1..(Len(lines) - 1) :
                captured[k].num_pixels >= stop_pixel =>
                    /\ CountFields(lines[k + 1]) = CountFields(lines[1])
                    /\ CountFields(lines[k + 1]) = FullWidth

\* C4 as amended: when the pixel column of the map file is the run start,
\* start + 1, ..., stop with start >= 1, every line of a frame with
\* num_pixels >= stop has as many fields as the heading, and that many is
\* stop - start + 1.
C4_RowsAsWideAsFullHeading ==
    (HeadingWritten /\ ConsecutivePixels) =>
        \A lines \in {LogLines} :
            \A k \in 1..(Len(lines) - 1) :
                captured[k].num_pixels >= stop_pixel =>
                    /\ CountFields(lines[k + 1]) = CountFields(lines[1])
                    /\ CountFields(lines[k + 1]) = FullWidth

C4_Witness ==
    /\ pc = "done" /\ error = "none"
    /\ pix = <<2, 3>> /\ ConsecutivePixels
    /\ \A k \in 1..num_frames : captured[k].num_pixels = 3
    /\ CountFields(LogLines[1]) = 2
    /\ \A k \in 1..num_frames : CountFields(LogLines[k + 1]) = 2

\* C5 as stated: the line of every frame with num_pixels < stop has
\* stop - num_pixels fields fewer than stop - start + 1.
C5_ShortByStopMinusPixels ==
    HeadingWritten =>
        \A lines \in {LogLines} :
            \A k \in 1..(Len(lines) - 1) :
                captured[k].num_pixels < stop_pixel =>
                    CountFields(lines[k + 1])
                        = FullWidth - (stop_pixel - captured[k].num_pixels)

\* C5 as amended: with start >= 1, the line of a frame with
\* start - 1 <= num_pixels < stop has stop - num_pixels fields fewer than
\* stop - start + 1; the line of a frame with num_pixels < start - 1 and
\* num_pixels < stop has no field at all; the frame is logged all the same.
C5_ShortFrames ==
    HeadingWritten =>
        \A lines \in {LogLines} :
            /\ \A k \in 1..(Len(lines) - 1) :
                 LET n == captured[k].num_pixels
                 IN  (start_pixel >= 1 /\ n < stop_pixel) =>
                        IF n >= start_pixel - 1
                        THEN CountFields(lines[k + 1]) = FullWidth - (stop_pixel - n)
                        ELSE CountFields(lines[k + 1]) = 0
            /\ (pc = "capture" /\ error = "none") => Len(lines) - 1 = Len(captured)

C5_Witness ==
    /\ pc = "capture" /\ error = "none" /\ Len(captured) = 2
    /\ start_pixel = 2 /\ stop_pixel = 3
    /\ captured[1].num_pixels = 2 /\ CountFields(LogLines[2]) = 1
    /\ captured[2].num_pixels = 0 /\ CountFields(LogLines[3]) = 0

\* the pixels of the map with start <= p <= stop, by rising p
InRangeKeys ==
    SelectSeq([n \in 1..FullWidth |-> start_pixel + n - 1],
              LAMBDA p : p \in DOMAIN chr_map.at)

\* C6 as stated: the heading is the mapped value of every pixel p of the map
\* with start <= p <= stop, by rising p, comma-joined, whatever the file.
C6_HeadingOfInRangePixels ==
    HeadingWritten =>
        \A keys \in {InRangeKeys} :
            Numbers(LogLines[1]) = [n \in 1..Len(keys) |-> chr_map.at[keys[n]]]

StrictlyRising(column) ==
    \A n \in 1..(Len(column) - 1) : column[n] < column[n + 1]

\* C6 as amended: the heading is the wavelength column of the map file in
\* file order, one field for each data row, comma-joined and followed by a
\* newline; when the pixel column rises strictly this is the mapped value
\* of every pixel p of the map with start <= p <= stop, by rising p.
C6_HeadingOfWavelengths ==
    HeadingWritten =>
        \A heading \in {LogLines[1]}, rows \in {MapRows}, keys \in {InRangeKeys} :
            \A numbers \in {Numbers(heading)} :
                /\ numbers = [n \in 1..Len(rows) |-> int(rows[n][2])]
                /\ CountFields(heading) = Len(rows)
                /\ LogText[Len(heading) + 1] = NL
                /\ StrictlyRising(pix) =>
                     numbers = [n \in 1..Len(keys) |-> chr_map.at[keys[n]]]

C6_Witness ==
    /\ pc = "kit" /\ error = "none"
    /\ Len(pix) = 2 /\ pix[1] = pix[2] /\ wav[1] # wav[2]
    /\ Len(InRangeKeys) = 1
    /\ Numbers(LogLines[1]) = wav

\* these lines are the heading and one line for each frame logged, in order
InOrder(lines) ==
    /\ Len(lines) = 1 + i
    /\ Numbers(lines[1]) = wav
    /\ Len(captured) \in {i, i + 1}
    /\ Len(captured) = i + 1 <=> pc = "log"
    /\ \A k \in 1..i :
          Numbers(lines[k + 1]) = CountsInRange(captured[k], start_pixel, stop_pixel)

IsPrefix(s, t) == Len(s) <= Len(t) /\ SubSeq(t, 1, Len(s)) = s

CountOf(s, c) == Cardinality({n \in 1..Len(s) : s[n] = c})

\* C7: nothing is captured before the heading is written; once written the
\* heading stays the first line and the log is never truncated again; each
\* cycle adds one line after the lines there, before the next capture; when
\* the loop is over the log holds 1 + num_frames lines, frames in order.
C7_OneLineEachCycle ==
    /\ [](~HeadingWritten => (captured = <<>> /\ i = 0))
    /\ [](HeadingWritten => \A lines \in {LogLines} : InOrder(lines))
    /\ [](pc = "done" => (i = num_frames /\ CountOf(disk.text, NL) = 1 + num_frames))
    /\ [][HeadingWritten =>
            /\ HeadingWritten'
            /\ IsPrefix(LogText, LogText')
            /\ Len(captured') > Len(captured) => CountOf(LogText, NL) = 1 + Len(captured)
            /\ i' # i => (i' = i + 1 /\ CountOf(LogText', NL) = CountOf(LogText, NL) + 1)]_vars

C7_Witness ==
    /\ pc = "done" /\ error = "none" /\ ~df.open
    /\ Len(TextLines(disk.text)) = 4
    /\ LogLines[2] # LogLines[3] /\ LogLines[3] # LogLines[4]
    /\ CountFields(LogLines[4]) = 2

\* the columns the reader's zip gives for the map file: two of them, ints
TwoIntColumns ==
    /\ mapfile.exists
    /\ \A rows \in {MapRows} :
           /\ rows # <<>>
           /\ \E n \in 1..Len(rows) : Len(rows[n]) = 2
           /\ \A n \in 1..Len(rows) :
                 Len(rows[n]) >= 2 /\ IsIntText(rows[n][1]) /\ IsIntText(rows[n][2])

C9_LineIsCountsInRange ==
    HeadingWritten =>
        \A lines \in {LogLines} :
            \A k \in 1..(Len(lines) - 1) :
                Numbers(lines[k + 1])
                    = CountsInRange(captured[k], start_pixel, stop_pixel)

C9_Witness ==
    /\ HeadingWritten /\ Len(LogLines) >= 2
    /\ start_pixel = 2 /\ stop_pixel = 3 /\ captured[1].num_pixels = 3
    /\ Numbers(LogLines[2]) = <<CountAt(2), CountAt(3)>>

\* C10: start and stop are the first and the last entry of the pixel column
\* in file order; when the first is greater than the last, every frame is
\* logged as a line without a field.
C10_RangeIsFirstAndLast ==
    HeadingWritten =>
        \A rows \in {MapRows}, lines \in {LogLines} :
            /\ start_pixel = int(rows[1][1])
            /\ stop_pixel = int(rows[Len(rows)][1])
            /\ start_pixel > stop_pixel =>
                  \A k \in 1..(Len(lines) - 1) : lines[k + 1] = <<>>

C10_Witness ==
    /\ HeadingWritten /\ Len(LogLines) >= 2
    /\ start_pixel = 3 /\ stop_pixel = 1 /\ pix = <<3, 1>>
    /\ captured[1].num_pixels = 3
    /\ LogLines[2] = <<>>

====
